---- MODULE Spec2Model ----
(***************************************************************************)
(* A model of PlaywrightSocialImageExtractor                               *)
(* (src/src/services/playwright_social_extractor_v2.py): the six platform  *)
(* extractors, the aggregator extract_images_from_all_platforms and        *)
(* capture_screenshots, each as a step-by-step walk through its code.      *)
(*                                                                         *)
(* The browser is the environment: every awaited browser call              *)
(* (new_page, goto, query_selector_all, get_attribute, evaluate, close)    *)
(* either answers or raises, and a query answers with any elements.        *)
(* URLs are strings; `in`, replace, split, endswith and lower are computed *)
(* on their characters.  Timestamps (extracted_at, extraction_started,     *)
(* captured_at) and log lines are left out: nothing reads them.            *)
(***************************************************************************)
EXTENDS Integers, Sequences, FiniteSets, TLC

(***************************************************************************)
(* Python str operations                                                   *)
(***************************************************************************)

\* s[from:], from counted from 1
Drop(s, from) == SubSeq(s, from, Len(s))

\* s.startswith(p, at), at counted from 1
MatchAt(s, p, at) ==
  at + Len(p) - 1 <= Len(s) /\ SubSeq(s, at, at + Len(p) - 1) = p

\* the 1-based indexes at which p occurs in s
Occurrences(s, p) == {k \in 1..(Len(s) - Len(p) + 1) : MatchAt(s, p, k)}

\* s.find(p) + 1: the first occurrence of p in s, 0 if none
Find(s, p) ==
  LET occ == Occurrences(s, p) IN
  IF occ = {} THEN 0 ELSE CHOOSE k \in occ : \A j \in occ : k <= j

\* p in s
Contains(s, p) == \E k \in 1..(Len(s) - Len(p) + 1) : MatchAt(s, p, k)

StartsWith(s, p) == MatchAt(s, p, 1)

EndsWith(s, p) == Len(p) <= Len(s) /\ SubSeq(s, Len(s) - Len(p) + 1, Len(s)) = p

\* s.replace(old, new): every non-overlapping occurrence, left to right;
\* from[k] is the result for s[k:]
Replace(s, old, new) ==
  LET from[k \in 1..(Len(s) + 1)] ==
        IF k + Len(old) - 1 > Len(s) THEN Drop(s, k)
        ELSE IF MatchAt(s, old, k) THEN new \o from[k + Len(old)]
        ELSE SubSeq(s, k, k) \o from[k + 1]
  IN from[1]

\* s.split(sep)[0]
SplitHead(s, sep) ==
  LET k == Find(s, sep) IN IF k = 0 THEN s ELSE SubSeq(s, 1, k - 1)

\* s.split(sep)[1], for an s that holds sep
SplitSecond(s, sep) == SplitHead(Drop(s, Find(s, sep) + Len(sep)), sep)

UpperChars == "ABCDEFGHIJKLMNOPQRSTUVWXYZ"
LowerChars == "abcdefghijklmnopqrstuvwxyz"

LowerChar(c) ==
  LET k == Find(UpperChars, c) IN
  IF k = 0 THEN c ELSE SubSeq(LowerChars, k, k)

\* s.lower(), on ASCII; upto[k] is the result for s[:k]
Lower(s) ==
  LET upto[k \in 0..Len(s)] ==
        IF k = 0 THEN "" ELSE upto[k - 1] \o LowerChar(SubSeq(s, k, k))
  IN upto[Len(s)]

\* Python's None
None == "<None>"

(***************************************************************************)
(* _is_valid_image_url                                                     *)
(***************************************************************************)

image_extensions == <<".jpg", ".jpeg", ".png", ".webp", ".gif", ".svg">>

image_indicators ==
  <<"i.ytimg.com", "pinimg.com", "pbs.twimg.com", "scontent", "fbcdn",
    "cdninstagram", "tiktokcdn", "image", "photo", "thumbnail", "avatar",
    "cover">>

IsValidImageUrl(url) ==
  IF url = None \/ url = "" THEN FALSE
  ELSE
    LET clean_url == SplitHead(SplitHead(url, "?"), "#")
        clean_lower == Lower(clean_url)
        url_lower == Lower(url)
        has_extension ==
          \E k \in DOMAIN image_extensions :
            EndsWith(clean_lower, image_extensions[k])
        has_indicator ==
          \E k \in DOMAIN image_indicators :
            Contains(url_lower, image_indicators[k])
    IN has_extension \/ has_indicator

(***************************************************************************)
(* _estimate_image_quality.  A score is a float; it is held here as the    *)
(* integer 1000 * score rounded to the nearest unit, which keeps the order *)
(* and the equalities of the doubles the sums produce: 0.6 + 0.3, 0.7 + 0.1*)
(* and 0.7 + 0.2 round to the double just below 0.9, 0.8 and 0.9.          *)
(***************************************************************************)

BaseScore == 500

FAdd(a, b) ==
  IF <<a, b>> \in {<<600, 300>>, <<700, 100>>, <<700, 200>>}
  THEN a + b - 1 ELSE a + b

Digits == "0123456789"

IsDigits(s) ==
  Len(s) > 0 /\ \A k \in 1..Len(s) : Contains(Digits, SubSeq(s, k, k))

\* int(s) of a string of decimal digits; upto[k] is int(s[:k])
ParseInt(s) ==
  LET upto[k \in 0..Len(s)] ==
        IF k = 0 THEN 0
        ELSE 10 * upto[k - 1] + (Find(Digits, SubSeq(s, k, k)) - 1)
  IN upto[Len(s)]

\* int() takes a sign before the digits
Unsigned(s) == IF StartsWith(s, "-") \/ StartsWith(s, "+") THEN Drop(s, 2) ELSE s

\* int(s) does not raise ValueError
IsIntLiteral(s) == IsDigits(Unsigned(s))

\* int(s) of a signed string of decimal digits
IntValue(s) ==
  IF StartsWith(s, "-") THEN 0 - ParseInt(Unsigned(s)) ELSE ParseInt(Unsigned(s))

\* a URL score that tried the lowest markers first
TierBonusLowFirst(url) ==
  IF Contains(url, "default") \/ Contains(url, "360")
     \/ Contains(url, "240") THEN 100
  ELSE IF Contains(url, "mqdefault") \/ Contains(url, "480") THEN 200
  ELSE IF Contains(url, "hqdefault") \/ Contains(url, "1080")
          \/ Contains(url, "720") THEN 300
  ELSE IF Contains(url, "maxresdefault") \/ Contains(url, "originals") THEN 400
  ELSE 0

\* the bonus of the URL: the first branch that matches
TierBonus(url) ==
  IF Contains(url, "maxresdefault") \/ Contains(url, "originals") THEN 400
  ELSE IF Contains(url, "hqdefault") \/ Contains(url, "1080")
          \/ Contains(url, "720") THEN 300
  ELSE IF Contains(url, "mqdefault") \/ Contains(url, "480") THEN 200
  ELSE IF Contains(url, "default") \/ Contains(url, "360")
          \/ Contains(url, "240") THEN 100
  ELSE 0

\* int(width), int(height) raise ValueError on a malformed string: no bonus
DimBonus(width, height) ==
  IF width = None \/ height = None \/ width = "" \/ height = "" THEN 0
  ELSE IF ~(IsIntLiteral(width) /\ IsIntLiteral(height)) THEN 0
  ELSE LET pixels == IntValue(width) * IntValue(height) IN
       IF pixels >= 1920 * 1080 THEN 300
       ELSE IF pixels >= 1280 * 720 THEN 200
       ELSE IF pixels >= 640 * 480 THEN 100
       ELSE 0

\* a score returned without the clamp
Min2Unclamped(a, b) == a

\* min(quality_score, 1.0)
Min2(a, b) == IF a <= b THEN a ELSE b

EstimateImageQuality(url, width, height) ==
  LET t == TierBonus(url)
      d == DimBonus(width, height)
      q1 == IF t = 0 THEN BaseScore ELSE FAdd(BaseScore, t)
      q2 == IF d = 0 THEN q1 ELSE FAdd(q1, d)
  IN Min2(q2, 1000)


(***************************************************************************)
(* Bounds of the model and the inputs it draws                             *)
(***************************************************************************)

\* the longest platforms list passed to extract_images_from_all_platforms
MaxPlatforms == 2
\* config['scroll_attempts'] (5 in the source), scaled down
ScrollAttempts == 2
\* the length of a platform's selector list (6 or 8 in the source), scaled down
NumSelectors == 2
\* config['max_images_per_platform'] (50 in the source), scaled down
MaxImagesPerPlatform == 2
\* the number of DOM elements the pages of one call yield in total
MaxElements == 3
\* the number of browser calls that raise during one call
MaxFaults == 2
\* the largest min_images passed
MaxMinImages == 1
\* the longest urls list passed to capture_screenshots
MaxUrls == 2
\* the longest platforms list passed to extract_viral_content
MaxViralPlatforms == 1
\* the largest max_items passed to extract_viral_content (50 by default)
MaxItems == 2

Query == "cafe latte art"

SupportedPlatforms ==
  {"instagram", "facebook", "youtube", "tiktok", "twitter", "pinterest"}

\* the names a caller may pass: the six platforms and one the code does not know
PlatformNames == SupportedPlatforms \cup {"linkedin"}

\* the src attribute of an element: absent, or one of these URLs
SrcPool ==
  { None,
    "https://i.ytimg.com/vi/abc/hqdefault.jpg",
    "https://i.ytimg.com/vi/abc/maxresdefault.jpg",
    "https://i.ytimg.com/vi/abc/default.jpg",
    "https://s.ytimg.com/yts/pixel",
    "https://i.pinimg.com/236x/b.jpg",
    "https://i.pinimg.com/originals/b.jpg",
    "https://pbs.twimg.com/media/c?format=jpg&name=small",
    "https://scontent.fbcdn.net/v/d_720.jpg",
    "https://example.com/page.html" }

\* an element: its src, and which of its get_attribute calls raises
Elements == [src : SrcPool, raises : {"none", "src", "alt"}]

\* the entries of a urls list
UrlPool == {"https://example.com", "http://a.io/x", "not-a-url", "", " "}

SeqsUpTo(S, n) == UNION {[1..k -> S] : k \in 0..n}

\* the most files os.walk yields under the storage root
MaxFiles == 2

\* a file of the storage root: the whole days since its last modification
\* (now - mtime), its size, and which of the calls on it raises
FilePool ==
  [age : {0, 1, 31}, size : {4},
   fails : {"none", "getmtime", "getsize", "remove"}]

\* the JSON body: days_old absent, a number, or not a number; dry_run absent,
\* true, false or null
Bodies ==
  [days_old : {None, "0", "1", "abc"}, dry_run : {None, "true", "false", "null"}]

\* the response of cleanup_old_files, while it has none
NoResponse == [status |-> 0]

\* the markers of the first branch of the URL score, and those of the others
HighMarkers == {"maxresdefault", "originals"}
LowMarkers == {"hqdefault", "mqdefault", "default", "720", "480", "360", "240"}

QualityUrlPool ==
  { "https://i.ytimg.com/vi/abc/maxresdefault.jpg",
    "https://i.pinimg.com/originals/b.jpg",
    "https://x.io/originals/maxresdefault.png",
    "https://x.io/240/originals/c.jpg",
    "https://x.io/c.jpg" }

\* the width and height arguments
DimPool ==
  { <<None, None>>, <<"1920", "1080">>, <<"1280", "720">>, <<"640", "480">>,
    <<"100", "100">>, <<"abc", "720">>, <<"", "720">>, <<"-1920", "-1080">>,
    <<"-1", "720">>, <<"+640", "480">> }

VARIABLES
  op,              \* the entry point called: "extract", "viral", "capture",
                   \* "browser", "with", "cleanup" or "quality"
  pc,              \* the place in the code
  platforms_given, \* FALSE: the platforms argument is None
  platforms_arg,   \* the platforms argument, when given
  min_images,      \* the min_images argument
  platforms,       \* the local platforms after defaulting
  i,               \* the loop index: platforms[i], urls[i]
  platforms_data,  \* results['platforms_data']
  all_images,      \* results['all_images']
  all_image_urls,  \* the set all_image_urls
  total_images_extracted,
  unique_images,
  images_data,     \* the extractor's images_data
  seen_urls,       \* the extractor's seen_urls
  scroll,          \* the scroll pass, 1..ScrollAttempts
  sel,             \* the selector's position in the list
  ret,             \* the value the extractor's try block returns
  open_pages,      \* the pages opened and not closed
  budget,          \* the elements the DOM may still yield
  faults,          \* the browser calls that have raised
  urls,            \* the urls argument of capture_screenshots
  screenshots,     \* the list screenshots
  runs,            \* history: per processed platform, what its extractor did
  sleeps,          \* history: the indexes after which asyncio.sleep ran
  playwright,      \* self.playwright is set
  browser,         \* self.browser is set
  context,         \* self.context is set
  close_at,        \* close_browser: the teardown step it has come to
  attempted,       \* history: the teardown calls made, and whether each raised
  start_raised,    \* history: start_browser raised to its caller
  close_result,    \* history: how close_browser ended, None while it has not
  body_exit,       \* history: how the body of `async with` ended, None if not
  data,            \* cleanup_old_files: the JSON body of the request
  walk,            \* cleanup_old_files: the files os.walk yields, in order
  disk,            \* the files of walk that exist on disk
  files_to_remove, \* cleanup_old_files: the list files_to_remove
  total_size_to_remove,
  file_at,         \* cleanup_old_files: the file of walk it has come to
  response,        \* cleanup_old_files: the response, None while it has none
  quality_args,    \* _estimate_image_quality: the arguments of two calls
  quality_scores,  \* _estimate_image_quality: what the two calls returned
  max_items,       \* extract_viral_content: the max_items argument
  viral_content,   \* extract_viral_content: the list viral_content
  viral_platforms_data, \* extract_viral_content: 'platforms_data' of its result
  total_content    \* extract_viral_content: 'total_content' of its result

vars ==
  <<op, pc, platforms_given, platforms_arg, min_images, platforms, i, platforms_data,
    all_images, all_image_urls, total_images_extracted, unique_images,
    images_data, seen_urls, scroll, sel, ret, open_pages, budget, faults,
    urls, screenshots, runs, sleeps, playwright, browser, context, close_at,
    attempted, start_raised, close_result, body_exit, data, walk, disk, files_to_remove,
    total_size_to_remove, file_at, response, quality_args, quality_scores,
    max_items, viral_content, viral_platforms_data, total_content>>

aggVars ==
  <<platforms_data, all_images, all_image_urls, total_images_extracted,
    unique_images, sleeps>>
inputVars == <<op, platforms_given, platforms_arg, min_images, urls>>
frameVars == <<images_data, seen_urls, scroll, sel, ret>>
lifeVars ==
  <<playwright, browser, context, close_at, attempted, start_raised,
    close_result, body_exit>>
cleanVars ==
  <<data, walk, disk, files_to_remove, total_size_to_remove, file_at,
    response>>
qualVars == <<quality_args, quality_scores>>
viralVars == <<max_items, viral_content, viral_platforms_data, total_content>>
\* what extract_images_from_all_platforms and capture_screenshots leave alone
otherVars == <<lifeVars, cleanVars, qualVars, viralVars>>
\* what the other methods leave alone
sessionVars ==
  <<platforms_given, platforms_arg, min_images, urls, platforms, i, aggVars,
    frameVars, open_pages, budget, screenshots, runs, viralVars>>

EmptyMap == [p \in {} |-> None]

\* d[k] = v on a dict
Put(d, k, v) == [p \in DOMAIN d \cup {k} |-> IF p = k THEN v ELSE d[p]]

HasKey(d, k) == k \in DOMAIN d

\* the state a call starts in, whatever its arguments
Fresh ==
  /\ pc = "start"
  /\ platforms = <<>>
  /\ i = 1
  /\ platforms_data = EmptyMap
  /\ all_images = <<>>
  /\ all_image_urls = {}
  /\ total_images_extracted = 0
  /\ unique_images = 0
  /\ images_data = <<>>
  /\ seen_urls = {}
  /\ scroll = 1
  /\ sel = 1
  /\ ret = None
  /\ open_pages = {}
  /\ budget = MaxElements
  /\ faults = 0
  /\ screenshots = <<>>
  /\ runs = <<>>
  /\ sleeps = {}
  /\ playwright = FALSE
  /\ browser = FALSE
  /\ context = FALSE
  /\ close_at = 1
  /\ attempted = <<>>
  /\ start_raised = FALSE
  /\ close_result = None
  /\ body_exit = None
  /\ disk = DOMAIN walk
  /\ files_to_remove = <<>>
  /\ total_size_to_remove = 0
  /\ file_at = 1
  /\ response = NoResponse
  /\ quality_scores = <<>>
  /\ viral_content = <<>>
  /\ viral_platforms_data = EmptyMap
  /\ total_content = 0

NoExtractArgs ==
  /\ platforms_given = FALSE
  /\ platforms_arg = <<>>
  /\ min_images = 0
  /\ max_items = 0

NoCleanupArgs == data = EmptyMap /\ walk = <<>>

NoQualityArgs == quality_args = <<>>

\* extract_images_from_all_platforms(query, platforms, min_images), with a
\* platforms list (given) or without one
ExtractCall(given) ==
  /\ op = "extract"
  /\ platforms_given = given
  /\ platforms_arg \in
       IF given THEN SeqsUpTo(PlatformNames, MaxPlatforms) ELSE {<<>>}
  /\ min_images \in 0..MaxMinImages
  /\ max_items = 0
  /\ urls = <<>>
  /\ NoCleanupArgs
  /\ NoQualityArgs

\* extract_viral_content(query, platforms, max_items): line 288 passes
\* max_items on as the min_images of extract_images_from_all_platforms
ViralCall ==
  /\ op = "viral"
  /\ platforms_given = TRUE
  /\ platforms_arg \in SeqsUpTo(PlatformNames, MaxViralPlatforms)
  /\ max_items \in 1..MaxItems
  /\ min_images = max_items
  /\ urls = <<>>
  /\ NoCleanupArgs
  /\ NoQualityArgs

\* capture_screenshots(urls, session_id)
CaptureCall ==
  /\ op = "capture"
  /\ NoExtractArgs
  /\ urls \in SeqsUpTo(UrlPool, MaxUrls)
  /\ NoCleanupArgs
  /\ NoQualityArgs

\* start_browser() and close_browser() as their caller orders them
\* ("browser"), or `async with extractor:` around a body ("with")
LifecycleCall ==
  /\ op \in {"browser", "with"}
  /\ NoExtractArgs
  /\ urls = <<>>
  /\ NoCleanupArgs
  /\ NoQualityArgs

\* POST /cleanup_old_files with a JSON body, over a storage root
CleanupCall ==
  /\ op = "cleanup"
  /\ NoExtractArgs
  /\ urls = <<>>
  /\ data \in Bodies
  /\ walk \in SeqsUpTo(FilePool, MaxFiles)
  /\ NoQualityArgs

\* _estimate_image_quality(url, width, height) on a URL and on the URL with
\* its marker high replaced by the marker low
QualityCall ==
  /\ op = "quality"
  /\ NoExtractArgs
  /\ urls = <<>>
  /\ NoCleanupArgs
  /\ quality_args \in
       [url : QualityUrlPool, high : HighMarkers, low : LowMarkers,
        dims : DimPool]

OtherCalls ==
  CaptureCall \/ LifecycleCall \/ CleanupCall \/ QualityCall \/ ViralCall

\* a call of any method; extract_images_from_all_platforms is passed a
\* platforms list
Init == (ExtractCall(TRUE) \/ OtherCalls) /\ Fresh

\* a call of any method; extract_images_from_all_platforms is passed no
\* platforms list (platforms=None)
InitDefault == (ExtractCall(FALSE) \/ OtherCalls) /\ Fresh

(***************************************************************************)
(* The platform extractors: what one element does to images_data and       *)
(* seen_urls.  Each answers [images, seen].                                *)
(***************************************************************************)

\* the platform-specific rewrite of a source URL to its high-quality form
UpgradeYoutube(img_url) ==
  IF Contains(img_url, "/hqdefault.jpg")
  THEN Replace(img_url, "/hqdefault.jpg", "/maxresdefault.jpg")
  ELSE IF Contains(img_url, "/mqdefault.jpg")
  THEN Replace(img_url, "/mqdefault.jpg", "/maxresdefault.jpg")
  ELSE IF Contains(img_url, "/sddefault.jpg")
  THEN Replace(img_url, "/sddefault.jpg", "/maxresdefault.jpg")
  ELSE img_url

UpgradePinterest(img_url) ==
  Replace(Replace(Replace(img_url, "/236x/", "/originals/"),
                  "/474x/", "/originals/"),
          "/736x/", "/originals/")

UpgradeTwitter(img_url) ==
  IF Contains(img_url, "&name=")
  THEN SplitHead(img_url, "&name=") \o "&name=orig"
  ELSE IF Contains(img_url, "?format=") /\ ~Contains(img_url, "&name=")
  THEN img_url \o "&name=orig"
  ELSE img_url

\* the key an extractor tests against seen_urls before accepting an element
SeenKey(platform, img_url) == img_url

\* the key an extractor adds to seen_urls when it accepts an element
AddedKey(platform, img_url) ==
  CASE platform = "youtube" -> UpgradeYoutube(img_url)
    [] platform = "pinterest" -> UpgradePinterest(img_url)
    [] platform = "twitter" -> UpgradeTwitter(img_url)
    [] OTHER -> img_url

\* the platform's test on the source URL
PlatformFilter(platform, img_url) ==
  CASE platform = "facebook" ->
         Contains(img_url, "scontent") \/ Contains(img_url, "fbcdn")
    [] platform = "pinterest" -> Contains(img_url, "pinimg.com")
    [] platform = "youtube" -> Contains(img_url, "ytimg.com")
    [] platform = "tiktok" -> IsValidImageUrl(img_url)
    [] platform = "twitter" -> Contains(img_url, "pbs.twimg.com")
    [] OTHER -> FALSE

\* does the extractor read the element's alt attribute?
ReadsAlt(platform) == platform \in {"facebook", "twitter"}

\* the ImageRecord (a dict) built for an accepted element
ImageInfo(platform, img_url) ==
  CASE platform = "facebook" ->
         [platform |-> "facebook", url |-> img_url, alt_text |-> "",
          type |-> "feed_image",
          estimated_quality |-> EstimateImageQuality(img_url, None, None)]
    [] platform = "pinterest" ->
         LET hq_url == UpgradePinterest(img_url) IN
         [platform |-> "pinterest", url |-> hq_url, original_url |-> img_url,
          type |-> "pin_image",
          estimated_quality |-> EstimateImageQuality(hq_url, None, None)]
    [] platform = "youtube" ->
         LET hq_url == UpgradeYoutube(img_url) IN
         [platform |-> "youtube", url |-> hq_url, original_url |-> img_url,
          video_id |-> IF Contains(hq_url, "/vi/")
                       THEN SplitHead(SplitSecond(hq_url, "/vi/"), "/")
                       ELSE None,
          type |-> "video_thumbnail",
          estimated_quality |-> EstimateImageQuality(hq_url, "1280", "720")]
    [] platform = "tiktok" ->
         [platform |-> "tiktok", url |-> img_url,
          type |-> IF Contains(Lower(img_url), "cover")
                   THEN "video_cover" ELSE "profile_image",
          estimated_quality |-> EstimateImageQuality(img_url, None, None)]
    [] platform = "twitter" ->
         LET hq_url == UpgradeTwitter(img_url) IN
         [platform |-> "twitter", url |-> hq_url, original_url |-> img_url,
          alt_text |-> "", type |-> "tweet_image",
          estimated_quality |-> EstimateImageQuality(hq_url, None, None)]

\* the extractors that scrape (instagram's is disabled)
ScrapedPlatforms == SupportedPlatforms \ {"instagram"}

\* the four operators above on every platform and source URL, computed once
OnElement ==
  [p \in ScrapedPlatforms, u \in SrcPool \ {None} |->
     [seen_key |-> SeenKey(p, u), passes |-> PlatformFilter(p, u),
      added_key |-> AddedKey(p, u), info |-> ImageInfo(p, u)]]

\* the body of `for element in elements` for one element, the cap not reached
ProcessElement(platform, e, images, seen) ==
  IF e.raises = "src" THEN [images |-> images, seen |-> seen]
  ELSE IF e.src = None \/ e.src = ""
          \/ OnElement[platform, e.src].seen_key \in seen
          \/ ~OnElement[platform, e.src].passes
  THEN [images |-> images, seen |-> seen]
  ELSE IF ReadsAlt(platform) /\ e.raises = "alt"
  THEN [images |-> images,
        seen |-> seen \cup {OnElement[platform, e.src].added_key}]
  ELSE [images |-> Append(images, OnElement[platform, e.src].info),
        seen |-> seen \cup {OnElement[platform, e.src].added_key}]

\* a try block that reported success whatever the count
OkResultAlwaysSuccess(platform, images, min) ==
  [platform |-> platform, query |-> Query, images |-> images,
   count |-> Len(images), success |-> TRUE]

\* the dict an extractor returns from its try block
OkResult(platform, images, min) ==
  [platform |-> platform, query |-> Query, images |-> images,
   count |-> Len(images), success |-> Len(images) >= min]

\* an except block that computed success from the count, as the try block does
ErrResultByCount(platform, images, min, error) ==
  [platform |-> platform, query |-> Query, images |-> images,
   count |-> Len(images), error |-> error, success |-> Len(images) >= min]

\* the dict an extractor returns from its except block
ErrResult(platform, images, min, error) ==
  [platform |-> platform, query |-> Query, images |-> images,
   count |-> Len(images), error |-> error, success |-> FALSE]

\* an aggregator that reported an unknown name as an error
UnsupportedResultAsError(platform) ==
  [platform |-> platform, images |-> <<>>, count |-> 0,
   error |-> "unsupported"]

\* the dict the aggregator stores for a name it does not know
UnsupportedResult(platform) ==
  [platform |-> platform, images |-> <<>>, count |-> 0]

\* the dict the aggregator stores when an extractor raised
FallbackResult(error) == [error |-> error, images |-> <<>>, count |-> 0]

Platform == platforms[i]

\* extract_images_from_all_platforms is at this place, called by itself or
\* by extract_viral_content
InExtract(at) == op \in {"extract", "viral"} /\ pc = at

\* the awaited browser call answers
Answers == UNCHANGED faults

\* the awaited browser call raises
Raises == faults < MaxFaults /\ faults' = faults + 1

\* page = await self.context.new_page(); images_data = []; seen_urls = set()
ExtNewPage ==
  /\ InExtract("new_page")
  /\ \/ /\ Answers
        /\ open_pages' = open_pages \cup {i}
        /\ images_data' = <<>>
        /\ seen_urls' = {}
        /\ scroll' = 1
        /\ sel' = 1
        /\ IF Platform = "instagram"
           THEN /\ ret' = OkResult("instagram", <<>>, min_images)
                /\ pc' = "finally"
           ELSE /\ ret' = None
                /\ pc' = "goto"
        /\ UNCHANGED runs
     \/ /\ Raises
        /\ runs' = Append(runs, [platform |-> Platform, ret |-> None,
                                 harvested |-> <<>>, raised |-> "new_page"])
        /\ pc' = "agg_except"
        /\ UNCHANGED <<open_pages, frameVars>>
  /\ UNCHANGED <<otherVars, inputVars, platforms, i, aggVars, budget, screenshots>>

\* await page.goto(...); await page.wait_for_timeout(...)
ExtGoto ==
  /\ InExtract("goto")
  /\ \/ /\ Answers
        /\ pc' = "query"
        /\ UNCHANGED ret
     \/ /\ Raises
        /\ ret' = ErrResult(Platform, images_data, min_images, "goto")
        /\ pc' = "finally"
  /\ UNCHANGED <<otherVars, inputVars, platforms, i, aggVars, images_data, seen_urls,
                 scroll, sel, open_pages, budget, screenshots, runs>>

\* elements = await page.query_selector_all(selector)
ExtQuery ==
  /\ InExtract("query")
  /\ \/ /\ Answers
        /\ pc' = "elements"
        /\ UNCHANGED ret
     \/ /\ Raises
        /\ ret' = ErrResult(Platform, images_data, min_images, "query")
        /\ pc' = "finally"
  /\ UNCHANGED <<otherVars, inputVars, platforms, i, aggVars, images_data, seen_urls,
                 scroll, sel, open_pages, budget, screenshots, runs>>

\* a cap tested one image too late
CapReachedLate(images) == Len(images) > MaxImagesPerPlatform

\* if len(images_data) >= self.config['max_images_per_platform']: break
CapReached(images) == Len(images) >= MaxImagesPerPlatform

\* for element in elements: one more element, the cap not reached
ExtElement ==
  /\ InExtract("elements")
  /\ budget > 0
  /\ ~CapReached(images_data)
  /\ \E e \in Elements :
       LET r == ProcessElement(Platform, e, images_data, seen_urls) IN
       /\ images_data' = r.images
       /\ seen_urls' = r.seen
  /\ budget' = budget - 1
  /\ UNCHANGED <<otherVars, faults, inputVars, platforms, i, aggVars, pc, scroll, sel, ret,
                 open_pages, screenshots, runs>>

\* the elements are exhausted, or the cap is reached and the loop breaks
ExtElementsEnd ==
  /\ InExtract("elements")
  /\ IF sel < NumSelectors
     THEN sel' = sel + 1 /\ pc' = "query"
     ELSE sel' = sel /\ pc' = "scroll"
  /\ UNCHANGED <<otherVars, faults, inputVars, platforms, i, aggVars, images_data, seen_urls,
                 scroll, ret, open_pages, budget, screenshots, runs>>

\* await page.evaluate('window.scrollBy...'); await page.wait_for_timeout(...)
ExtScroll ==
  /\ InExtract("scroll")
  /\ \/ /\ Answers
        /\ IF scroll < ScrollAttempts
           THEN /\ scroll' = scroll + 1
                /\ sel' = 1
                /\ pc' = "query"
                /\ UNCHANGED ret
           ELSE /\ ret' = OkResult(Platform, images_data, min_images)
                /\ pc' = "finally"
                /\ UNCHANGED <<scroll, sel>>
     \/ /\ Raises
        /\ ret' = ErrResult(Platform, images_data, min_images, "scroll")
        /\ pc' = "finally"
        /\ UNCHANGED <<scroll, sel>>
  /\ UNCHANGED <<otherVars, inputVars, platforms, i, aggVars, images_data, seen_urls,
                 open_pages, budget, screenshots, runs>>

\* an extractor that closed its page on the normal return only
PagesAfterExitOnSuccess(pages, page, result) ==
  IF HasKey(result, "error") THEN pages ELSE pages \ {page}

\* an extractor that never closed its page
PagesAfterExitNever(pages, page, result) == pages

\* the pages left open when an extractor exits with result in hand: the
\* finally clause calls page.close() whatever the try block returned.  A page
\* counts as open until close() has been called on it.
PagesAfterExit(pages, page, result) == pages \ {page}

\* finally: await page.close(); then the return, unless close raised
ExtFinally ==
  /\ InExtract("finally")
  /\ open_pages' = PagesAfterExit(open_pages, i, ret)
  /\ \/ /\ Answers
        /\ runs' = Append(runs, [platform |-> Platform, ret |-> ret,
                                 harvested |-> images_data, raised |-> None])
        /\ pc' = "agg_store"
     \/ /\ Raises
        /\ runs' = Append(runs, [platform |-> Platform, ret |-> ret,
                                 harvested |-> images_data, raised |-> "close"])
        /\ pc' = "agg_except"
  /\ UNCHANGED <<otherVars, inputVars, platforms, i, aggVars, frameVars, budget,
                 screenshots>>

(***************************************************************************)
(* extract_images_from_all_platforms                                       *)
(***************************************************************************)

\* the platforms processed when the argument is None
DefaultPlatforms == <<"instagram", "pinterest", "youtube", "twitter", "tiktok">>

\* a merge that did not consult all_image_urls
MergeAcceptsAny(url, known) == url # None /\ url # ""

\* is img['url'] appended to all_images, given the URLs already merged?
MergeAccepts(url, known) == url # None /\ url # "" /\ url \notin known

\* a merge in which a later record took the place of the one already kept
MergeOneLastWins(img, all, known) ==
  IF img.url = None \/ img.url = "" THEN [all |-> all, urls |-> known]
  ELSE IF img.url \in known
  THEN [all |-> [k \in DOMAIN all |->
                   IF all[k].url = img.url THEN img ELSE all[k]],
        urls |-> known]
  ELSE [all |-> Append(all, img), urls |-> known \cup {img.url}]

\* the body of the merge loop for one img; answers [all, urls]
MergeOne(img, all, known) ==
  IF MergeAccepts(img.url, known)
  THEN [all |-> Append(all, img), urls |-> known \cup {img.url}]
  ELSE [all |-> all, urls |-> known]

RECURSIVE MergeImages(_, _, _)
\* for img in platform_data.get('images', []): ... ; answers [all, urls]
MergeImages(images, all, known) ==
  IF images = <<>> THEN [all |-> all, urls |-> known]
  ELSE LET m == MergeOne(Head(images), all, known) IN
       MergeImages(Tail(images), m.all, m.urls)

\* a sort in which an equal key overtook
SortsBeforeOrTies(x, y) == x.estimated_quality >= y.estimated_quality

\* does x go before y in sorted(..., key=estimated_quality, reverse=True)?
\* an equal key never overtakes: the sort is stable
SortsBefore(x, y) == x.estimated_quality > y.estimated_quality

RECURSIVE InsertByQuality(_, _)
\* x put into the sorted s, after every record it does not sort before
InsertByQuality(s, x) ==
  IF s = <<>> THEN <<x>>
  ELSE IF SortsBefore(x, Head(s)) THEN <<x>> \o s
  ELSE <<Head(s)>> \o InsertByQuality(Tail(s), x)

RECURSIVE SortByQuality(_)
\* sorted(all_images, key=lambda x: x.get('estimated_quality', 0), reverse=True)
SortByQuality(s) ==
  IF s = <<>> THEN <<>>
  ELSE InsertByQuality(SortByQuality(SubSeq(s, 1, Len(s) - 1)), s[Len(s)])

\* results['total_images_extracted'] = len(results['all_images'])
TotalImagesExtracted(all, known) == Len(all)

\* results['unique_images'] = len(all_image_urls)
UniqueImages(all, known) == Cardinality(known)

\* if platforms is None: platforms = [...]
AggStart ==
  /\ InExtract("start")
  /\ platforms' = IF ~platforms_given THEN DefaultPlatforms
                  ELSE platforms_arg
  /\ pc' = "agg_loop"
  /\ UNCHANGED <<otherVars, faults, inputVars, i, aggVars, frameVars, open_pages, budget,
                 screenshots, runs>>

\* for platform in platforms: the dispatch on the name
AggLoop ==
  /\ InExtract("agg_loop")
  /\ IF i > Len(platforms)
     THEN /\ pc' = "agg_final"
          /\ UNCHANGED <<ret, runs>>
     ELSE IF Platform \in SupportedPlatforms
     THEN /\ pc' = "new_page"
          /\ UNCHANGED <<ret, runs>>
     ELSE /\ ret' = UnsupportedResult(Platform)
          /\ runs' = Append(runs, [platform |-> Platform,
                                   ret |-> UnsupportedResult(Platform),
                                   harvested |-> <<>>, raised |-> None])
          /\ pc' = "agg_store"
  /\ UNCHANGED <<otherVars, faults, inputVars, platforms, i, aggVars, images_data, seen_urls,
                 scroll, sel, open_pages, budget, screenshots>>

\* results['platforms_data'][platform] = platform_data, and the merge loop
AggStore ==
  /\ InExtract("agg_store")
  /\ platforms_data' = Put(platforms_data, Platform, ret)
  /\ LET m == MergeImages(ret.images, all_images, all_image_urls) IN
       /\ all_images' = m.all
       /\ all_image_urls' = m.urls
  /\ pc' = "agg_sleep"
  /\ UNCHANGED <<otherVars, faults, inputVars, platforms, i, total_images_extracted,
                 unique_images, sleeps, frameVars, open_pages, budget,
                 screenshots, runs>>

\* await asyncio.sleep(self.config['wait_between_requests'])
AggSleep ==
  /\ InExtract("agg_sleep")
  /\ sleeps' = sleeps \cup {i}
  /\ i' = i + 1
  /\ pc' = "agg_loop"
  /\ UNCHANGED <<otherVars, faults, inputVars, platforms, platforms_data, all_images,
                 all_image_urls, total_images_extracted, unique_images,
                 frameVars, open_pages, budget, screenshots, runs>>

\* an except clause that logged the error and stored nothing
AggExceptStoresNothing ==
  /\ InExtract("agg_except")
  /\ i' = i + 1
  /\ pc' = "agg_loop"
  /\ UNCHANGED <<otherVars, faults, inputVars, platforms, aggVars, frameVars,
                 open_pages, budget, screenshots, runs>>

\* except Exception as e: results['platforms_data'][platform] = {...}
AggExcept ==
  /\ InExtract("agg_except")
  /\ platforms_data' =
       Put(platforms_data, Platform, FallbackResult(runs[Len(runs)].raised))
  /\ i' = i + 1
  /\ pc' = "agg_loop"
  /\ UNCHANGED <<otherVars, faults, inputVars, platforms, all_images, all_image_urls,
                 total_images_extracted, unique_images, sleeps,
                 frameVars, open_pages, budget, screenshots, runs>>

\* the final metrics and the sort
AggFinal ==
  /\ InExtract("agg_final")
  /\ total_images_extracted' = TotalImagesExtracted(all_images, all_image_urls)
  /\ unique_images' = UniqueImages(all_images, all_image_urls)
  /\ all_images' = SortByQuality(all_images)
  /\ pc' = "done"
  /\ UNCHANGED <<otherVars, faults, inputVars, platforms, i, platforms_data, all_image_urls,
                 sleeps, frameVars, open_pages, budget, screenshots, runs>>

(***************************************************************************)
(* extract_viral_content: the call of line 288 is the actions above, and   *)
(* what follows it is one step                                             *)
(***************************************************************************)

\* d.get(k, dflt) on a dict
Get(d, k, dflt) == IF HasKey(d, k) THEN d[k] ELSE dflt

\* an adapter that gave every entry the default score
ViralItemDefaultScore(img) ==
  [platform |-> Get(img, "platform", "unknown"),
   title |-> Get(img, "alt_text", "Conteudo viral"),
   image_url |-> Get(img, "url", None),
   thumbnail_url |-> Get(img, "url", None),
   viral_score |-> BaseScore,
   type |-> Get(img, "type", "image"),
   metadata |-> img]

\* the dict appended to viral_content for one img of all_images (the default
\* title is written here without its accent)
ViralItem(img) ==
  [platform |-> Get(img, "platform", "unknown"),
   title |-> Get(img, "alt_text", "Conteudo viral"),
   image_url |-> Get(img, "url", None),
   thumbnail_url |-> Get(img, "url", None),
   viral_score |-> Get(img, "estimated_quality", BaseScore),
   type |-> Get(img, "type", "image"),
   metadata |-> img]

\* for img in result.get('all_images', []): viral_content.append({...}),
\* and the dict returned
ViralAdapt ==
  /\ op = "viral"
  /\ pc = "done"
  /\ viral_content' = [k \in DOMAIN all_images |-> ViralItem(all_images[k])]
  /\ viral_platforms_data' = platforms_data
  /\ total_content' = Len(all_images)
  /\ pc' = "viral_done"
  /\ UNCHANGED <<lifeVars, cleanVars, qualVars, max_items, faults, inputVars,
                 platforms, i, aggVars, frameVars, open_pages, budget,
                 screenshots, runs>>

(***************************************************************************)
(* capture_screenshots                                                     *)
(***************************************************************************)

SessionId == "sess1"

WhitespaceChars == " "

\* not url.strip()
IsBlank(url) ==
  \A k \in 1..Len(url) : Contains(WhitespaceChars, SubSeq(url, k, k))

RECURSIVE ToDigits(_)
\* str(n) for n >= 0
ToDigits(n) ==
  IF n < 10 THEN SubSeq(Digits, n + 1, n + 1)
  ELSE ToDigits(n \div 10) \o SubSeq(Digits, (n % 10) + 1, (n % 10) + 1)

\* f"{n:03d}"
Format03d(n) ==
  LET d == ToDigits(n) IN
  IF Len(d) >= 3 THEN d ELSE SubSeq("000", 1, 3 - Len(d)) \o d

\* screenshots_dir / f"viral_screenshot_{i+1:03d}.png", i+1 the 1-based index
ScreenshotPath(n) ==
  "analyses_data/files/" \o SessionId \o "/viral_screenshot_"
    \o Format03d(n) \o ".png"

\* the test that skips an entry
UrlSkipped(url) ==
  url = None \/ url = "" \/ IsBlank(url)
    \/ ~(StartsWith(url, "http://") \/ StartsWith(url, "https://"))

SuccessRecord(url, n) ==
  [url |-> url, screenshot_path |-> ScreenshotPath(n), index |-> n,
   success |-> TRUE]

FailureRecord(url, error) == [url |-> url, error |-> error, success |-> FALSE]

InCapture(at) == op = "capture" /\ pc = at

capFrame ==
  <<otherVars, inputVars, platforms, aggVars, frameVars, budget, runs>>

\* screenshots = []; screenshots_dir.mkdir(parents=True, exist_ok=True)
CapStart ==
  /\ InCapture("start")
  /\ \/ Answers /\ pc' = "cap_loop"
     \/ Raises /\ pc' = "raised"
  /\ UNCHANGED <<capFrame, i, open_pages, screenshots>>

\* for i, url in enumerate(urls): the validity test
CapLoop ==
  /\ InCapture("cap_loop")
  /\ IF i > Len(urls)
     THEN pc' = "done" /\ i' = i
     ELSE IF UrlSkipped(urls[i])
     THEN pc' = "cap_loop" /\ i' = i + 1
     ELSE pc' = "cap_new_page" /\ i' = i
  /\ UNCHANGED <<faults, capFrame, open_pages, screenshots>>

\* the except branch of capture_screenshots: a failure record, then continue
CapExcept(error) ==
  /\ Raises
  /\ screenshots' = Append(screenshots, FailureRecord(urls[i], error))
  /\ i' = i + 1
  /\ pc' = "cap_loop"

\* page = await self.context.new_page()
CapNewPage ==
  /\ InCapture("cap_new_page")
  /\ \/ /\ Answers
        /\ open_pages' = open_pages \cup {i}
        /\ pc' = "cap_goto"
        /\ UNCHANGED <<i, screenshots>>
     \/ /\ CapExcept("new_page")
        /\ UNCHANGED open_pages
  /\ UNCHANGED capFrame

\* await page.goto(url, ...); await page.wait_for_timeout(2000)
CapGoto ==
  /\ InCapture("cap_goto")
  /\ \/ /\ Answers
        /\ pc' = "cap_shot"
        /\ UNCHANGED <<i, screenshots>>
     \/ CapExcept("goto")
  /\ UNCHANGED <<capFrame, open_pages>>

\* await page.screenshot(...); screenshots.append({... 'success': True})
CapShot ==
  /\ InCapture("cap_shot")
  /\ \/ /\ Answers
        /\ screenshots' = Append(screenshots, SuccessRecord(urls[i], i))
        /\ pc' = "cap_close"
        /\ UNCHANGED i
     \/ CapExcept("screenshot")
  /\ UNCHANGED <<capFrame, open_pages>>

\* await page.close()
CapClose ==
  /\ InCapture("cap_close")
  /\ open_pages' = open_pages \ {i}
  /\ \/ /\ Answers
        /\ i' = i + 1
        /\ pc' = "cap_loop"
        /\ UNCHANGED screenshots
     \/ CapExcept("close")
  /\ UNCHANGED capFrame

(***************************************************************************)
(* start_browser and close_browser.  The caller may call close_browser     *)
(* without having called start_browser, after it returned, or after it     *)
(* raised.                                                                 *)
(***************************************************************************)

InLifecycle(at) == op \in {"browser", "with"} /\ pc = at

\* an except clause that logged the exception and did not raise it again
StartFailsSwallowed ==
  /\ Raises
  /\ UNCHANGED start_raised
  /\ pc' = "started"

\* except Exception as e: logger.error(...); raise
StartFails ==
  /\ Raises
  /\ start_raised' = TRUE
  /\ pc' = "start_failed"

\* self.playwright = await async_playwright().start()
StartPlaywright ==
  /\ InLifecycle("start")
  /\ \/ /\ Answers
        /\ playwright' = TRUE
        /\ pc' = "launch"
        /\ UNCHANGED start_raised
     \/ /\ StartFails
        /\ UNCHANGED playwright
  /\ UNCHANGED <<op, body_exit, sessionVars, cleanVars, qualVars, browser, context,
                 close_at, attempted, close_result>>

\* self.browser = await self.playwright.chromium.launch(...)
StartLaunch ==
  /\ InLifecycle("launch")
  /\ \/ /\ Answers
        /\ browser' = TRUE
        /\ pc' = "new_context"
        /\ UNCHANGED start_raised
     \/ /\ StartFails
        /\ UNCHANGED browser
  /\ UNCHANGED <<op, body_exit, sessionVars, cleanVars, qualVars, playwright, context,
                 close_at, attempted, close_result>>

\* self.context = await self.browser.new_context(...)
StartContext ==
  /\ InLifecycle("new_context")
  /\ \/ /\ Answers
        /\ context' = TRUE
        /\ pc' = "init_script"
        /\ UNCHANGED start_raised
     \/ /\ StartFails
        /\ UNCHANGED context
  /\ UNCHANGED <<op, body_exit, sessionVars, cleanVars, qualVars, playwright, browser,
                 close_at, attempted, close_result>>

\* await self.context.add_init_script(...)
StartScript ==
  /\ InLifecycle("init_script")
  /\ \/ /\ Answers
        /\ pc' = "started"
        /\ UNCHANGED start_raised
     \/ StartFails
  /\ UNCHANGED <<op, body_exit, sessionVars, cleanVars, qualVars, playwright, browser,
                 context, close_at, attempted, close_result>>

\* a teardown that closed the browser before the context
TeardownOrderBrowserFirst == <<"browser", "context", "playwright">>

\* the order in which close_browser comes to its three calls
TeardownOrder == <<"context", "browser", "playwright">>

\* if self.context: / if self.browser: / if self.playwright:
IsSet(name) ==
  CASE name = "context" -> context
    [] name = "browser" -> browser
    [] name = "playwright" -> playwright

\* how close_browser ends once its except clause has caught an exception
AfterCloseError == "returned"

\* the body of `async with extractor:` runs after __aenter__ returned, and
\* ends by returning or by raising
WithBody ==
  /\ op = "with"
  /\ pc = "started"
  /\ body_exit' \in {"returned", "raised"}
  /\ pc' = "exit"
  /\ UNCHANGED <<op, faults, sessionVars, cleanVars, qualVars, playwright,
                 browser, context, close_at, attempted, start_raised,
                 close_result>>

\* __aexit__(exc_type, exc_val, exc_tb): await self.close_browser().  Python
\* calls it however the body ended, and never when __aenter__ raised.
WithExit ==
  /\ op = "with"
  /\ pc = "exit"
  /\ close_at' = 1
  /\ pc' = "teardown"
  /\ UNCHANGED <<op, body_exit, faults, sessionVars, cleanVars, qualVars,
                 playwright, browser, context, attempted, start_raised,
                 close_result>>

\* close_browser() is called
CloseCall ==
  /\ op = "browser"
  /\ pc \in {"start", "started", "start_failed"}
  /\ close_at' = 1
  /\ pc' = "teardown"
  /\ UNCHANGED <<op, body_exit, faults, sessionVars, cleanVars, qualVars, playwright,
                 browser, context, attempted, start_raised, close_result>>

\* one `if self.x: await self.x.close()` of the try block; a call that
\* raises ends the try block, and the except clause logs
CloseStep ==
  /\ InLifecycle("teardown")
  /\ close_at <= Len(TeardownOrder)
  /\ IF ~IsSet(TeardownOrder[close_at])
     THEN /\ close_at' = close_at + 1
          /\ UNCHANGED <<faults, attempted, close_result, pc>>
     ELSE \/ /\ Answers
             /\ attempted' = Append(attempted, [step |-> TeardownOrder[close_at],
                                                raised |-> FALSE])
             /\ close_at' = close_at + 1
             /\ UNCHANGED <<close_result, pc>>
          \/ /\ Raises
             /\ attempted' = Append(attempted, [step |-> TeardownOrder[close_at],
                                                raised |-> TRUE])
             /\ close_result' = AfterCloseError
             /\ pc' = "closed"
             /\ UNCHANGED close_at
  /\ UNCHANGED <<op, body_exit, sessionVars, cleanVars, qualVars, playwright, browser,
                 context, start_raised>>

\* logger.info("Browser fechado com sucesso"): the try block ran to its end
CloseEnd ==
  /\ InLifecycle("teardown")
  /\ close_at > Len(TeardownOrder)
  /\ close_result' = "returned"
  /\ pc' = "closed"
  /\ UNCHANGED <<op, body_exit, faults, sessionVars, cleanVars, qualVars, playwright,
                 browser, context, close_at, attempted, start_raised>>

(***************************************************************************)
(* cleanup_old_files (src/src/routes/files.py).  A file is known by its    *)
(* place in the walk; its age is now - mtime in whole days, so that        *)
(* file_mtime < cutoff_date reads age > days_old.  The response fields     *)
(* total_size_mb and cutoff_date are left out.                             *)
(***************************************************************************)

DefaultDaysOld == 30

InCleanup(at) == op = "cleanup" /\ pc = at

\* int(data.get('days_old', 30)) raises ValueError
DaysOldInvalid(body) == body.days_old # None /\ ~IsDigits(body.days_old)

\* days_old = int(data.get('days_old', 30))
DaysOld(body) ==
  IF body.days_old = None THEN DefaultDaysOld ELSE ParseInt(body.days_old)

\* dry_run = data.get('dry_run', True), as JSON
DryRunValue(body) == IF body.dry_run = None THEN "true" ELSE body.dry_run

\* the truth value of dry_run: null and false are falsy
DryRun(body) == DryRunValue(body) = "true"

\* file_mtime < cutoff_date
IsOld(file, days) == file.age > days

\* a cleanup that removed the files it lists whatever dry_run says
RemovesAlways(dry) == TRUE

\* if not dry_run: os.remove(file_path)
Removes(dry) == ~dry

\* the entry appended to files_to_remove for the file at place k of the walk
FileEntry(file, k) == [path |-> k, size |-> file.size, modified |-> file.age]

\* the except branch of the whole handler: the 500 response
ErrorResponse == [status |-> 500, error |-> "Erro na limpeza de arquivos"]

\* the 200 response (the action text is written here without its accents)
CleanupResponse(body, found) ==
  [status |-> 200, success |-> TRUE,
   action |-> IF DryRun(body) THEN "Simulacao de limpeza"
              ELSE "Limpeza executada",
   files_found |-> Len(found),
   files |-> IF DryRun(body) THEN found ELSE <<>>,
   dry_run |-> DryRunValue(body)]

\* data = request.get_json() or {}; days_old = int(...); dry_run = ...
CleanStart ==
  /\ InCleanup("start")
  /\ IF DaysOldInvalid(data)
     THEN response' = ErrorResponse /\ pc' = "done"
     ELSE response' = response /\ pc' = "walk"
  /\ UNCHANGED <<op, faults, sessionVars, lifeVars, qualVars, data, walk, disk,
                 files_to_remove, total_size_to_remove, file_at>>

\* the body of `for file in files` for one file; an exception of getmtime,
\* getsize or remove is logged and the loop continues
CleanFile ==
  /\ InCleanup("walk")
  /\ file_at <= Len(walk)
  /\ LET file == walk[file_at] IN
       IF file.fails = "getmtime" \/ ~IsOld(file, DaysOld(data))
          \/ file.fails = "getsize"
       THEN UNCHANGED <<files_to_remove, total_size_to_remove, disk>>
       ELSE /\ files_to_remove' =
                 Append(files_to_remove, FileEntry(file, file_at))
            /\ total_size_to_remove' = total_size_to_remove + file.size
            /\ disk' = IF Removes(DryRun(data)) /\ file.fails # "remove"
                       THEN disk \ {file_at} ELSE disk
  /\ file_at' = file_at + 1
  /\ UNCHANGED <<op, pc, faults, sessionVars, lifeVars, qualVars, data, walk,
                 response>>

\* return jsonify({...})
CleanReturn ==
  /\ InCleanup("walk")
  /\ file_at > Len(walk)
  /\ response' = CleanupResponse(data, files_to_remove)
  /\ pc' = "done"
  /\ UNCHANGED <<op, faults, sessionVars, lifeVars, qualVars, data, walk, disk,
                 files_to_remove, total_size_to_remove, file_at>>

(***************************************************************************)
(* _estimate_image_quality, called on a URL and on its low-marker variant  *)
(***************************************************************************)

\* url with every occurrence of the marker high replaced by the marker low
LowVariant(args) == Replace(args.url, args.high, args.low)

\* the two calls, with the same width and height
QualityEval ==
  /\ op = "quality"
  /\ pc = "start"
  /\ quality_scores' =
       << EstimateImageQuality(quality_args.url, quality_args.dims[1],
                               quality_args.dims[2]),
          EstimateImageQuality(LowVariant(quality_args), quality_args.dims[1],
                               quality_args.dims[2]) >>
  /\ pc' = "done"
  /\ UNCHANGED <<op, faults, sessionVars, lifeVars, cleanVars, quality_args>>

Next ==
  \/ AggStart
  \/ AggLoop
  \/ ExtNewPage
  \/ ExtGoto
  \/ ExtQuery
  \/ ExtElement
  \/ ExtElementsEnd
  \/ ExtScroll
  \/ ExtFinally
  \/ AggStore
  \/ AggSleep
  \/ AggExcept
  \/ AggFinal
  \/ ViralAdapt
  \/ CapStart
  \/ CapLoop
  \/ CapNewPage
  \/ CapGoto
  \/ CapShot
  \/ CapClose
  \/ StartPlaywright
  \/ StartLaunch
  \/ StartContext
  \/ StartScript
  \/ WithBody
  \/ WithExit
  \/ CloseCall
  \/ CloseStep
  \/ CloseEnd
  \/ CleanStart
  \/ CleanFile
  \/ CleanReturn
  \/ QualityEval

Spec == Init /\ [][Next]_vars

SpecDefault == InitDefault /\ [][Next]_vars

(***************************************************************************)
(* Properties.  runs[k] is what the extractor of platforms[k] did: the     *)
(* value its try or except block returned (ret), the images it had         *)
(* harvested, and the call that raised out of it (raised), if any.         *)
(***************************************************************************)

Done == op = "extract" /\ pc = "done"

\* the extractor of platforms[k] returned a value to the aggregator
Returned(k) == runs[k].raised = None

\* platforms[k] is the last entry of the list with its name
LastOf(k) == \A j \in (k + 1)..Len(platforms) : platforms[j] # platforms[k]

\* the images the extractors returned, in processing order
ReturnedImages ==
  LET upto[k \in 0..Len(runs)] ==
        IF k = 0 THEN <<>>
        ELSE IF Returned(k) THEN upto[k - 1] \o runs[k].ret.images
        ELSE upto[k - 1]
  IN upto[Len(runs)]

\* the place of the first returned image with this url
FirstAt(url) ==
  CHOOSE k \in 1..Len(ReturnedImages) :
    /\ ReturnedImages[k].url = url
    /\ \A j \in 1..(k - 1) : ReturnedImages[j].url # url

\* two platforms returned the same url
SharedUrl ==
  \E a, b \in 1..Len(ReturnedImages) :
    /\ a < b
    /\ ReturnedImages[a].url = ReturnedImages[b].url
    /\ ReturnedImages[a].platform # ReturnedImages[b].platform

NoTwoShareUrl(images) ==
  \A a, b \in 1..Len(images) : a # b => images[a].url # images[b].url

\* C1: in every result of extract_images_from_all_platforms no two records
\* of all_images have the same url, and unique_images = len(all_images)
C1_DedupInvariant ==
  op = "extract" =>
    /\ NoTwoShareUrl(all_images)
    /\ pc = "done" => unique_images = Len(all_images)

\* C1, its case: a run in which two platforms returned the same url
C1_Witness ==
  /\ Done
  /\ SharedUrl
  /\ unique_images >= 1
  /\ Len(ReturnedImages) > unique_images

\* C2: within the images of one PlatformResult no two records have the same
\* url, also when the same raw URL is seen again under another selector or
\* in a later scroll pass
C2_NoDuplicateInPlatformResult ==
  op = "extract" =>
    \A k \in 1..Len(runs) : Returned(k) => NoTwoShareUrl(runs[k].ret.images)

\* C3: total_images_extracted is the number of images the platforms
\* returned, before deduplication, so it exceeds unique_images whenever two
\* platforms returned the same url
C3_TotalIsPreDedupCount ==
  Done =>
    /\ total_images_extracted = Len(ReturnedImages)
    /\ SharedUrl => total_images_extracted > unique_images

\* C4: all_images is sorted non-increasing by estimated_quality, and records
\* of equal estimated_quality stand in the order in which they were first
\* merged
C4_SortedStable ==
  Done =>
    \A a, b \in 1..Len(all_images) :
      a < b =>
        /\ all_images[a].estimated_quality >= all_images[b].estimated_quality
        /\ all_images[a].estimated_quality = all_images[b].estimated_quality
             => FirstAt(all_images[a].url) < FirstAt(all_images[b].url)

\* C4, its case: the sort moved a record, and two records tie
C4_Witness ==
  /\ Done
  /\ \E a, b \in 1..Len(all_images) :
       /\ a < b
       /\ all_images[a].estimated_quality = all_images[b].estimated_quality
  /\ \E a, b \in 1..Len(all_images) :
       /\ a < b
       /\ FirstAt(all_images[a].url) > FirstAt(all_images[b].url)

\* C5: the record all_images keeps for a url is the first one returned for
\* it, in processing order; a later platform's record never replaces it
C5_FirstSeenWins ==
  op = "extract" =>
    \A k \in 1..Len(all_images) :
      all_images[k] = ReturnedImages[FirstAt(all_images[k].url)]

\* C5, its case: tiktok, then youtube, returned the same url
C5_Witness ==
  /\ Done
  /\ platforms = <<"tiktok", "youtube">>
  /\ Returned(1) /\ Returned(2)
  /\ \E a \in 1..Len(runs[1].ret.images), b \in 1..Len(runs[2].ret.images) :
       runs[1].ret.images[a].url = runs[2].ret.images[b].url
  /\ \E k \in 1..Len(all_images) : all_images[k].platform = "tiktok"

\* page.goto raised in the extractor of platforms[k]
GotoRaised(k) ==
  /\ runs[k].raised # "new_page"
  /\ HasKey(runs[k].ret, "error")
  /\ runs[k].ret.error = "goto"

\* C6: if page.goto of one platform raises, platforms_data[platform].success
\* is false, and every other requested platform has its entry, with exactly
\* the images its extractor returned
C6_PartialFailureContained ==
  Done =>
    \A k \in 1..Len(platforms) :
      (LastOf(k) /\ GotoRaised(k)) =>
        /\ HasKey(platforms_data, platforms[k])
        /\ HasKey(platforms_data[platforms[k]], "success")
        /\ platforms_data[platforms[k]].success = FALSE
        /\ \A j \in 1..Len(platforms) :
             (j # k /\ LastOf(j)) =>
               /\ HasKey(platforms_data, platforms[j])
               /\ Returned(j) =>
                    platforms_data[platforms[j]].images = runs[j].ret.images

\* the extractor of platforms[k] returned a PlatformResult
ExtractorReturned(k) == platforms[k] \in SupportedPlatforms /\ Returned(k)

\* C7, as stated: every PlatformResult an extractor returns has success true
\* exactly when count >= min_images, on the except path too
C7_SuccessIffCount ==
  op = "extract" =>
    \A k \in 1..Len(runs) :
      ExtractorReturned(k) =>
        (runs[k].ret.success <=> runs[k].ret.count >= min_images)

\* C7, amended: success is true exactly when the extractor returned from its
\* try block and count >= min_images; a result of the except block has
\* success false whatever its count
C7_SuccessIffCountAndNoError ==
  op = "extract" =>
    \A k \in 1..Len(runs) :
      ExtractorReturned(k) =>
        (runs[k].ret.success <=>
           (~HasKey(runs[k].ret, "error") /\ runs[k].ret.count >= min_images))

\* C7, its case: an except-path result whose count reaches min_images
C7_Witness ==
  /\ op = "extract"
  /\ min_images >= 1
  /\ \E k \in 1..Len(runs) :
       /\ ExtractorReturned(k)
       /\ HasKey(runs[k].ret, "error")
       /\ runs[k].ret.count >= min_images
       /\ runs[k].ret.success = FALSE

\* C8: the images an extractor had harvested when a later step of it failed
\* (a query or a scroll raising, or page.close raising) are in
\* platforms_data[platform].images and in all_images
C8_HarvestKept ==
  Done =>
    \A k \in 1..Len(platforms) :
      \A n \in 1..Len(runs[k].harvested) :
        /\ LastOf(k) =>
             \E m \in 1..Len(platforms_data[platforms[k]].images) :
               platforms_data[platforms[k]].images[m] = runs[k].harvested[n]
        /\ \E m \in 1..Len(all_images) :
             all_images[m].url = runs[k].harvested[n].url

\* C9: a page opened by an extractor is open only while that extractor runs:
\* once it has returned or raised, the page is no longer open
C9_ExtractorPagesClosed ==
  op = "extract" =>
    \A k \in open_pages :
      k = i /\ pc \in {"goto", "query", "elements", "scroll", "finally"}

\* C9, its case: an extractor has left through its except block, after a
\* scroll raised, and its page is closed
C9_Witness ==
  /\ op = "extract"
  /\ pc = "agg_store"
  /\ HasKey(ret, "error")
  /\ ret.error = "scroll"
  /\ open_pages = {}

\* C10: a page opened by capture_screenshots is open only while its URL is
\* processed: after that, and after the method returns, it is no longer
\* open, also when goto or screenshot raised
C10_CapturePagesClosed ==
  op = "capture" =>
    \A k \in open_pages :
      k = i /\ pc \in {"cap_goto", "cap_shot", "cap_close"}

\* the teardown call on this handle was made
Attempted(name) == \E k \in 1..Len(attempted) : attempted[k].step = name

\* the teardown call on this handle was made and raised
RaisedIn(name) ==
  \E k \in 1..Len(attempted) : attempted[k].step = name /\ attempted[k].raised

\* C11: close_browser tolerates a failure at each teardown step on its own:
\* if closing the context raises, closing the browser and stopping the
\* driver are still attempted; if closing the browser raises, stopping the
\* driver is still attempted
C11_TeardownStepsIndependent ==
  (op = "browser" /\ pc = "closed") =>
    /\ (RaisedIn("context") /\ browser) => Attempted("browser")
    /\ (RaisedIn("context") /\ playwright) => Attempted("playwright")
    /\ (RaisedIn("browser") /\ playwright) => Attempted("playwright")

\* the place of a handle in the order context, browser, automation driver
TeardownRank(name) ==
  CASE name = "context" -> 1
    [] name = "browser" -> 2
    [] name = "playwright" -> 3

\* C12: close_browser makes its teardown calls only in the order context,
\* browser, automation driver, and never raises to its caller, whichever
\* call fails, also when start_browser was never called or failed part-way
C12_TeardownOrderedNeverRaises ==
  op = "browser" =>
    /\ \A a, b \in 1..Len(attempted) :
         a < b => TeardownRank(attempted[a].step) < TeardownRank(attempted[b].step)
    /\ pc = "closed" => close_result = "returned"

\* C12, its case: start_browser failed part-way, then a teardown call of
\* close_browser raised, and close_browser returned
C12_Witness ==
  /\ op = "browser"
  /\ pc = "closed"
  /\ start_raised
  /\ playwright /\ browser /\ ~context
  /\ RaisedIn("browser")
  /\ close_result = "returned"

\* C13: the delay between platforms is never skipped: when the extractor of
\* a platform after the first is invoked, asyncio.sleep has run since the
\* platform before it was done with, whether that one succeeded, returned an
\* error result or raised
C13_DelayNeverSkipped ==
  (op = "extract" /\ pc = "new_page" /\ i > 1) => (i - 1) \in sleeps

\* the entry starts with http:// or https://
HasHttpScheme(entry) ==
  StartsWith(entry, "http://") \/ StartsWith(entry, "https://")

\* C14: capture_screenshots never lets one URL abort the batch: every entry
\* that starts with http:// or https:// yields exactly one record (success,
\* or failure with error set), the records stand in input order, an entry
\* without such a scheme yields none, and the URLs after a failing one are
\* processed
C14_OneRecordPerUrl ==
  (op = "capture" /\ pc = "done") =>
    /\ [k \in DOMAIN screenshots |-> screenshots[k].url]
         = SelectSeq(urls, HasHttpScheme)
    /\ \A k \in DOMAIN screenshots :
         screenshots[k].success \/ HasKey(screenshots[k], "error")

\* C15: called without a platforms argument, extract_images_from_all_platforms
\* processes all six platforms, and each has an entry in platforms_data
C15_DefaultIsAllSix ==
  (Done /\ ~platforms_given) =>
    /\ \A name \in SupportedPlatforms : HasKey(platforms_data, name)
    /\ {platforms[k] : k \in 1..Len(platforms)} = SupportedPlatforms

\* C16: an unsupported name in the platforms list yields a platforms_data
\* entry with no images, count 0 and no error field, adds nothing to
\* all_images, and does not abort the run: the platforms after it are
\* processed
C16_UnsupportedIsEmptyNotFatal ==
  Done =>
    \A k \in 1..Len(platforms) :
      platforms[k] \notin SupportedPlatforms =>
        /\ HasKey(platforms_data, platforms[k])
        /\ platforms_data[platforms[k]].images = <<>>
        /\ platforms_data[platforms[k]].count = 0
        /\ ~HasKey(platforms_data[platforms[k]], "error")
        /\ \A m \in 1..Len(all_images) : all_images[m].platform # platforms[k]
        /\ Len(runs) = Len(platforms)
        /\ \A j \in (k + 1)..Len(platforms) :
             /\ HasKey(platforms_data, platforms[j])
             /\ (Returned(j) /\ LastOf(j)) =>
                  platforms_data[platforms[j]].images = runs[j].ret.images

\* C16, its case: an unsupported name, then tiktok, which returned an image
C16_Witness ==
  /\ Done
  /\ platforms = <<"linkedin", "tiktok">>
  /\ Returned(2)
  /\ Len(runs[2].ret.images) >= 1
  /\ Len(all_images) >= 1

\* C17: at every point of every extractor, and in the PlatformResult it
\* returns, the number of accepted images never exceeds
\* max_images_per_platform, whatever the selectors, elements and scroll
\* passes
C17_PlatformCap ==
  op = "extract" =>
    /\ Len(images_data) <= MaxImagesPerPlatform
    /\ \A k \in 1..Len(runs) :
         runs[k].raised # "new_page" =>
           /\ Len(runs[k].ret.images) <= MaxImagesPerPlatform
           /\ runs[k].ret.count <= MaxImagesPerPlatform

\* C17, its case: the cap is reached while the page may still yield
\* elements, and the extractor has gone on to its next query
C17_Witness ==
  /\ op = "extract"
  /\ pc = "query"
  /\ Len(images_data) = MaxImagesPerPlatform
  /\ budget > 0

\* cleanup_old_files has answered 200
Cleaned == op = "cleanup" /\ pc = "done" /\ response.status = 200

\* the places of the walk that the response lists, in order
ListedPaths == [k \in DOMAIN response.files |-> response.files[k].path]

\* the places of the walk, in order
Places == [k \in DOMAIN walk |-> k]

OldPlace(k) == IsOld(walk[k], DaysOld(data))

OldReadablePlace(k) ==
  OldPlace(k) /\ walk[k].fails \notin {"getmtime", "getsize"}

\* C18, as stated: with dry_run true or omitted, cleanup_old_files deletes
\* nothing, and the response lists every file whose last modification is
\* older than the cutoff
C18_DryRunListsAllOld ==
  (op = "cleanup" /\ DryRun(data)) =>
    /\ disk = DOMAIN walk
    /\ Cleaned => ListedPaths = SelectSeq(Places, OldPlace)

\* C18, amended: with dry_run true or omitted, cleanup_old_files deletes
\* nothing, and the response lists every file older than the cutoff whose
\* mtime and size could be read; a file on which getmtime or getsize raises
\* is skipped
C18_DryRunListsOldReadable ==
  (op = "cleanup" /\ DryRun(data)) =>
    /\ disk = DOMAIN walk
    /\ Cleaned => ListedPaths = SelectSeq(Places, OldReadablePlace)

\* C18, its case: a dry run over an old file that is listed and an old file
\* whose size could not be read
C18_Witness ==
  /\ Cleaned
  /\ data.dry_run = None
  /\ Len(response.files) >= 1
  /\ \E k \in DOMAIN walk : OldPlace(k) /\ walk[k].fails = "getsize"
  /\ \E k \in DOMAIN walk : OldPlace(k) /\ walk[k].fails = "remove"
  /\ disk = DOMAIN walk

\* C19: with dry_run false and days_old 0, every file counted in files_found
\* no longer exists after the call and the response's files list is empty,
\* also when deleting one of the files fails
C19_DeletesEveryFileFound ==
  (Cleaned /\ data.dry_run = "false" /\ data.days_old = "0") =>
    /\ response.files = <<>>
    /\ response.files_found = Len(files_to_remove)
    /\ \A k \in DOMAIN files_to_remove : files_to_remove[k].path \notin disk

\* C20: for the same width and height, a URL that holds a maximum-resolution
\* marker (maxresdefault, originals) scores at least as much as the same URL
\* with that marker replaced by a lower-resolution marker
C20_MonotonicTiering ==
  (op = "quality" /\ pc = "done"
     /\ Contains(quality_args.url, quality_args.high)) =>
    quality_scores[1] >= quality_scores[2]

\* C20, its case: the maximum-resolution URL scores strictly more than its
\* variant, with dimensions that add their own bonus
C20_Witness ==
  /\ op = "quality"
  /\ pc = "done"
  /\ Contains(quality_args.url, quality_args.high)
  /\ quality_args.dims = <<"640", "480">>
  /\ LowVariant(quality_args) # quality_args.url
  /\ quality_scores[1] > quality_scores[2]

\* the score is between the base 0.5 and 1.0
InScoreRange(q) == BaseScore <= q /\ q <= 1000

\* base + tier bonus + dimension bonus of the first call, before the clamp
UnclampedSum ==
  BaseScore + TierBonus(quality_args.url)
    + DimBonus(quality_args.dims[1], quality_args.dims[2])

\* C21: _estimate_image_quality returns a score in [0, 1] for every url and
\* every width/height, absent, well-formed or malformed: never below the base
\* 0.5 and never above 1.0; so the estimated_quality of every ImageRecord is
\* in [0, 1]
C21_ScoreInRange ==
  /\ (op = "quality" /\ pc = "done") =>
       \A k \in DOMAIN quality_scores : InScoreRange(quality_scores[k])
  /\ op = "extract" =>
       /\ \A k \in DOMAIN images_data :
            InScoreRange(images_data[k].estimated_quality)
       /\ \A k \in DOMAIN all_images :
            InScoreRange(all_images[k].estimated_quality)

\* C21, its case: the sum of base and bonuses is above 1.0 and is clamped
C21_Witness ==
  /\ op = "quality"
  /\ pc = "done"
  /\ UnclampedSum > 1000
  /\ quality_scores[1] = 1000

\* the records of the youtube PlatformResult
YoutubeRecords ==
  IF op = "extract" /\ HasKey(platforms_data, "youtube")
  THEN platforms_data["youtube"].images ELSE <<>>

\* the URL is in a tier of _estimate_image_quality below the highest
CarriesLowerMarker(url) == TierBonus(url) > 0 /\ TierBonus(url) < 400

\* the thumbnail names _extract_youtube_images rewrites
KnownYoutubeMarkers == {"/hqdefault.jpg", "/mqdefault.jpg", "/sddefault.jpg"}

\* hq is original with one of the known names replaced by maxresdefault
IsMaxresVariant(hq, original) ==
  /\ Contains(hq, "maxresdefault")
  /\ \E m \in KnownYoutubeMarkers \cup {"/default.jpg"} :
       hq = Replace(original, m, "/maxresdefault.jpg")

\* C22: every record of the youtube PlatformResult has a url
\* containing ytimg.com; whenever the original URL carried a
\* lower-resolution marker the url is the maxresdefault variant of it; and
\* original_url keeps the unmodified source
C22_YoutubeUpgradedAnyMarker ==
  \A k \in DOMAIN YoutubeRecords :
    LET r == YoutubeRecords[k] IN
    /\ Contains(r.url, "ytimg.com")
    /\ r.original_url \in SrcPool
    /\ CarriesLowerMarker(r.original_url) =>
         IsMaxresVariant(r.url, r.original_url)

\* the places of start_browser and of what follows it before close_browser
StartPlaces ==
  {"launch", "new_context", "init_script", "started", "start_failed", "exit"}

\* C23: a failure to launch the browser or to create the browsing context in
\* start_browser is raised to the caller and never swallowed; entering the
\* extractor as an async context manager then fails: its body never runs
C23_StartFailurePropagates ==
  /\ (op \in {"browser", "with"} /\ pc \in StartPlaces /\ faults > 0) =>
       (start_raised /\ pc = "start_failed")
  /\ (op = "with" /\ start_raised) => (pc = "start_failed" /\ body_exit = None)

\* C23, its case: the driver started, the launch of the browser raised, and
\* `async with` failed
C23_Witness ==
  /\ op = "with"
  /\ pc = "start_failed"
  /\ start_raised
  /\ playwright
  /\ ~browser

\* the handle was acquired and no call that closes it has returned
Running(name) ==
  /\ IsSet(name)
  /\ ~\E k \in 1..Len(attempted) :
        attempted[k].step = name /\ ~attempted[k].raised

\* `async with extractor:` is over: __aenter__ raised, or __aexit__ returned
WithEnded == op = "with" /\ pc \in {"start_failed", "closed"}

\* C25: the session releases its resources on all exit paths: used as an
\* async context manager, close_browser runs on normal exit and on an
\* exception in the body; and when start_browser fails part-way, no driver or
\* browser acquired by that start remains running afterwards
C25_ResourcesReleased ==
  /\ (op = "with" /\ body_exit # None /\ pc = "closed") =>
       close_result = "returned"
  /\ (WithEnded /\ start_raised) =>
       (~Running("playwright") /\ ~Running("browser"))

\* C26: extract_images_from_all_platforms is never aborted by a platform:
\* whatever raises out of an extractor, a failure to open or to close its
\* page included, every platform of the list is processed in list order and
\* the result has an entry in platforms_data for every requested name
C26_NeverAborted ==
  op = "extract" =>
    /\ Len(runs) <= Len(platforms)
    /\ \A k \in DOMAIN runs : runs[k].platform = platforms[k]
    /\ pc \in {"agg_loop", "new_page"} =>
         \A k \in 1..(i - 1) :
           k <= Len(platforms) => HasKey(platforms_data, platforms[k])
    /\ pc = "done" =>
         /\ Len(runs) = Len(platforms)
         /\ \A k \in DOMAIN platforms : HasKey(platforms_data, platforms[k])

\* C26, its case: the first extractor raised when it closed its page, and
\* the second was then run and returned images
C26_Witness ==
  /\ Done
  /\ Len(platforms) = 2
  /\ platforms[1] # platforms[2]
  /\ runs[1].raised = "close"
  /\ Returned(2)
  /\ Len(runs[2].ret.images) > 0

\* every image the extractor of platforms[k] returned is merged
MergedAll(k) ==
  \A m \in DOMAIN runs[k].ret.images :
    runs[k].ret.images[m].url \in all_image_urls

\* C27: platforms are processed one after the other in list order: at most
\* one page is open at any time, and the page of platform k+1 is opened only
\* after the page of platform k was closed and its images were merged
C27_Sequential ==
  op = "extract" =>
    /\ Cardinality(open_pages) <= 1
    /\ open_pages \subseteq {i}
    /\ pc = "new_page" =>
         /\ open_pages = {}
         /\ Len(runs) = i - 1
         /\ \A k \in 1..(i - 1) : Returned(k) => MergedAll(k)

\* C27, its case: the first platform returned images, and the page of the
\* second is about to be opened
C27_Witness ==
  /\ op = "extract"
  /\ pc = "new_page"
  /\ i = 2
  /\ Returned(1)
  /\ Len(runs[1].ret.images) > 0

ViralDone == op = "viral" /\ pc = "viral_done"

\* C24: extract_viral_content renames the fields of the result of
\* extract_images_from_all_platforms: viral_content has one entry per record
\* of all_images, in the same order, with image_url and thumbnail_url the
\* record's url, viral_score its estimated_quality and platform its platform;
\* total_content is len(viral_content) and unique_images; platforms_data is
\* passed through unchanged
C24_ViralIsRenaming ==
  ViralDone =>
    /\ Len(viral_content) = Len(all_images)
    /\ \A k \in DOMAIN viral_content :
         /\ viral_content[k].image_url = all_images[k].url
         /\ viral_content[k].thumbnail_url = all_images[k].url
         /\ viral_content[k].viral_score = all_images[k].estimated_quality
         /\ viral_content[k].platform = all_images[k].platform
    /\ total_content = Len(viral_content)
    /\ total_content = unique_images
    /\ viral_platforms_data = platforms_data

\* C24, its case: two records of different quality were adapted
C24_Witness ==
  /\ ViralDone
  /\ Len(viral_content) = 2
  /\ viral_content[1].viral_score > viral_content[2].viral_score
  /\ viral_content[1].viral_score > BaseScore

\* C30: extract_viral_content(query, platforms, max_items) returns at most
\* max_items entries in viral_content, total_content <= max_items, whatever
\* the platforms return
C30_AtMostMaxItems ==
  ViralDone => (Len(viral_content) <= max_items /\ total_content <= max_items)

\* the source URLs of the pool that pass _is_valid_image_url
ValidSources == {u \in SrcPool \ {None} : IsValidImageUrl(u)}

\* the source URL a record was made from
SourceOf(r) == IF HasKey(r, "original_url") THEN r.original_url ELSE r.url

\* C28: every ImageRecord created by a platform extractor comes from a source
\* URL that passes _is_valid_image_url; no extractor accepts an element
\* whose source URL fails that check
C28_RecordsPassValidity ==
  op \in {"extract", "viral"} =>
    \A k \in DOMAIN images_data : SourceOf(images_data[k]) \in ValidSources

\* the extractor of platforms[k] was that of instagram
IsInstagramRun(k) == runs[k].platform = "instagram"

\* C29: _extract_instagram_images opens a page, navigates nowhere, queries
\* nothing, closes the page, and whenever it returns it returns zero images,
\* count 0 and no error, with success true only when min_images <= 0
C29_InstagramDisabled ==
  op \in {"extract", "viral"} =>
    /\ (pc \in {"goto", "query", "elements", "scroll"}) =>
         Platform # "instagram"
    /\ (pc = "finally" /\ Platform = "instagram") =>
         (i \in open_pages /\ images_data = <<>>)
    /\ \A k \in DOMAIN runs :
         IsInstagramRun(k) =>
           /\ runs[k].harvested = <<>>
           /\ k \notin open_pages
           /\ Returned(k) =>
                /\ runs[k].ret.images = <<>>
                /\ runs[k].ret.count = 0
                /\ ~HasKey(runs[k].ret, "error")
                /\ runs[k].ret.success = (min_images <= 0)

\* C29, its case: instagram was asked for at least one image and returned
\* none, without an error and without success
C29_Witness ==
  /\ Done
  /\ min_images = 1
  /\ \E k \in DOMAIN runs :
       /\ IsInstagramRun(k)
       /\ Returned(k)
       /\ runs[k].ret.success = FALSE
       /\ HasKey(platforms_data, "instagram")

\* the record is one of the images stored under its platform's name
InPlatformsData(r) ==
  /\ HasKey(platforms_data, r.platform)
  /\ \E m \in DOMAIN platforms_data[r.platform].images :
       platforms_data[r.platform].images[m] = r

\* C31: after extract_images_from_all_platforms returns, every record of
\* all_images is an element of platforms_data[record.platform].images, for
\* any platform list, a list that names a platform more than once included
C31_AllImagesInPlatformsData ==
  Done => \A k \in DOMAIN all_images : InPlatformsData(all_images[k])
====
